---- MODULE Spec2Model ----
(***************************************************************************)
(* Model of the interruptible pipeline of stress.ts (`--mode=run`):        *)
(* main, its SIGINT handler, runPipeline (steps 1-4), monitorGatling with  *)
(* its background pod watch and its finally block, waitForPods, pollUntil, *)
(* interruptibleSleep, streamLogs, parsePodStatus and isPodReady.          *)
(*                                                                         *)
(* The program runs on one event loop.  Code between two awaits is atomic; *)
(* a SIGINT is delivered only while the pipeline is suspended in an await. *)
(* Every action below is therefore the code that runs from one await to    *)
(* the next, and pc names the await the pipeline is suspended in.          *)
(* Time is in milliseconds.                                                *)
(***************************************************************************)
EXTENDS Integers, Sequences, FiniteSets, TLC

\* ---------------------------------------------------------------- bounds
\* Largest cfg.pod_timeout (seconds) drawn in Init.
MaxPodTimeout == 11

\* Time a status query (kubectl get pods) may take, in ms.
ProbeDelays == {0, 1000}

\* Time into an interval wait at which a SIGINT may land, in ms.
AbortDelays == {0, 2000}

\* Longest probe script of a direct pollUntil call.
MaxScript == 3

\* Probe invocations after which a direct pollUntil call is no longer
\* followed (its probe does not settle any more).
MaxPolls == 6

\* Largest maxMs of a direct pollUntil call, in seconds.
MaxMaxSec == 6

\* Calls of abort() on the signal of a direct pollUntil call.
MaxAborts == 2

\* The intervalMs of a direct pollUntil call, in ms.
Intervals == {3000, 5000}

\* Longest line handed to parsePodStatus.
MaxLineLen == 7

\* Longest text after "Init" or "Init:" in a label handed to isPodReady.
MaxTail == 3

\* ------------------------------------------------------ program constants
POLL_INTERVAL == 5000

NoExit == -1
EXIT_OK == 0
EXIT_UNCAUGHT == 1
EXIT_SIGINT == 130

\* ------------------------------------------------------------------ text
\* Strings of the program are sequences of one-character strings.
SP == " "
NL == "\n"
TAB == "\t"

IsSpace(c) == c \in {SP, TAB, NL}

RECURSIVE TrimLeft(_)
TrimLeft(s) ==
  IF s = <<>> THEN <<>>
  ELSE IF IsSpace(Head(s)) THEN TrimLeft(Tail(s)) ELSE s

RECURSIVE TrimRight(_)
TrimRight(s) ==
  IF s = <<>> THEN <<>>
  ELSE IF IsSpace(s[Len(s)]) THEN TrimRight(SubSeq(s, 1, Len(s) - 1)) ELSE s

\* String.prototype.trim
Trim(s) == TrimRight(TrimLeft(s))

\* s.split(sep) for a one-character separator: the pieces between the
\* separators, empty pieces included ("".split(sep) is [""]).
RECURSIVE SplitChar(_, _, _)
SplitChar(s, sep, cur) ==
  IF s = <<>> THEN <<cur>>
  ELSE IF Head(s) = sep THEN <<cur>> \o SplitChar(Tail(s), sep, <<>>)
  ELSE SplitChar(Tail(s), sep, Append(cur, Head(s)))

\* s.split(/\s+/): a run of whitespace is one separator; a leading or a
\* trailing run leaves an empty piece, and "".split(/\s+/) is [""].
RECURSIVE SplitWs(_, _)
SplitWs(s, cur) ==
  IF s = <<>> THEN <<cur>>
  ELSE IF IsSpace(Head(s))
       THEN <<cur>> \o SplitWs(TrimLeft(s), <<>>)
       ELSE SplitWs(Tail(s), Append(cur, Head(s)))

\* s.startsWith(p)
StartsWith(s, p) == Len(s) >= Len(p) /\ SubSeq(s, 1, Len(p)) = p

Pending == <<"P", "e", "n", "d", "i", "n", "g">>
ContainerCreating ==
  <<"C", "o", "n", "t", "a", "i", "n", "e", "r",
    "C", "r", "e", "a", "t", "i", "n", "g">>
PodInitializing ==
  <<"P", "o", "d", "I", "n", "i", "t", "i", "a", "l", "i", "z", "i", "n", "g">>
InitPrefix == <<"I", "n", "i", "t", ":">>

NOT_READY_STATUSES == {Pending, ContainerCreating, PodInitializing}

\* The value null of parsePodStatus.
Null == [null |-> TRUE]

\* parsePodStatus splitting the line as it is, without trim().
parsePodStatus_NoTrim(line) ==
  LET parts == SplitWs(line, <<>>)
  IN IF Len(parts) < 3 THEN Null
     ELSE [name |-> parts[1], status |-> parts[3]]

parsePodStatus(line) ==
  LET parts == SplitWs(Trim(line), <<>>)
  IN IF Len(parts) < 3 THEN Null
     ELSE [name |-> parts[1], status |-> parts[3]]

\* isPodReady without the startsWith("Init:") test.
isPodReady_NoInitPrefix(status) ==
  IF status \in NOT_READY_STATUSES THEN FALSE
  ELSE TRUE

isPodReady(status) ==
  IF status \in NOT_READY_STATUSES THEN FALSE
  ELSE IF StartsWith(status, InitPrefix) THEN FALSE
  ELSE TRUE

\* The callback waitForPods hands to pollUntil, as a function of what
\* `kubectl get pods --no-headers` printed (a failed query prints nothing).
ProbeResult(output) ==
  LET trimmed == Trim(output)
      lines == SplitChar(trimmed, NL, <<>>)
      pods == SelectSeq([i \in 1..Len(lines) |-> parsePodStatus(lines[i])],
                        LAMBDA p : p # Null)
  IN IF trimmed = <<>> THEN FALSE
     ELSE Len(pods) > 0 /\ \E i \in 1..Len(pods) : isPodReady(pods[i].status)

\* What the status query may print in the model.
Running == <<"R", "u", "n", "n", "i", "n", "g">>
InitZeroOne == <<"I", "n", "i", "t", ":", "0", "/", "1">>
Row(name, cnt, status) == name \o <<SP, SP>> \o cnt \o <<SP>> \o status \o <<SP, "0">>
KubectlOutputs ==
  { <<>>,
    <<SP, NL>>,
    Row(<<"r">>, <<"0">>, Pending) \o <<NL>>,
    Row(<<"r">>, <<"0">>, InitZeroOne) \o <<NL>>,
    <<"r", SP, "0">>,
    Row(<<"r">>, <<"1">>, Running) \o <<NL>>,
    Row(<<"q">>, <<"0">>, Pending) \o <<NL>> \o Row(<<"r">>, <<"1">>, Running) \o <<NL>> }

\* ----------------------------------------------------------------- state
VARIABLES
  dryRun,        \* cli.dryRun
  pod_timeout,   \* cfg.pod_timeout, seconds
  spawnOnAwait,  \* dax starts the process of a command that is not awaited at
                 \* once only when the command is awaited (TRUE), or already
                 \* when the command is created (FALSE)
  pc,            \* the await the pipeline is suspended in
  stage,         \* monitored sub-stage: "runner" (5b) or "reporter" (5c)
  interrupted,   \* module-level flag `interrupted`
  aborted,       \* abort.signal.aborted
  watchAborted,  \* watchAbort.signal.aborted
  podWatch,      \* the `kubectl get pod -w` command: none, created (no process
                 \* yet), running, exited
  now,           \* Date.now()
  start,         \* pollUntil's `start`
  pollCount,     \* waitForPods' `pollCount`
  ready,         \* the value pollUntil returned to its caller
  maxMs,         \* pollUntil's `maxMs`: <<>> when undefined, else <<ms>>
  intervalMs,    \* pollUntil's `intervalMs`
  timer,         \* interruptibleSleep's setTimeout is armed
  listener,      \* interruptibleSleep's onAbort is registered on abort.signal
  sleepResult,   \* what the pending interruptibleSleep promise resolved to
  fn,            \* the probe of a direct pollUntil call: its results, in
                 \* order of invocation, the last one repeating
  txtOp,         \* the pure function a direct call applies
  txtIn,         \* its argument
  txtOut,        \* its result: <<>> before the call, else <<value>>
  thrown,        \* the function whose error is propagating ("none" if none)
  outcome,       \* execute(cli, cfg): pending, returned or thrown
  exitCode,      \* the process's exit status, NoExit while it runs
  \* history, for the properties only
  sigints,       \* SIGINTs delivered to the handler
  intPc,         \* the await during which the first SIGINT arrived
  stepLog,       \* the steps started so far, in order of their start
  step3Code,     \* exit codes of step 3's helm uninstall (<<>> before)
  watchStarts,   \* pod watches started
  watchStops,    \* calls of watchAbort.abort()
  streams,       \* log streams started
  cleanups,      \* compensating uninstalls started
  cleanupsDone,  \* compensating uninstalls finished
  pollOutcome,   \* why the last pollUntil left its loop
  sleeps,        \* interval waits of the current pollUntil that ran to "timeout"
  sleepStart,    \* Date.now() when the last interruptibleSleep was called
  cleanupCtx,    \* how the compensating helm process was started: <<>> before,
                 \* else <<its dryRun argument, the signal it is bound to>>
  cleanupCode,   \* its exit code (<<>> before)
  queryCode,     \* exit code of waitForPods' last status query (<<>> before)
  probed,        \* what the last invocation of pollUntil's fn produced
  aborts,        \* calls of abort() on the main signal
  fired,         \* runs of interruptibleSleep's onAbort listener
  watchExit      \* how the pod watch ended: <<>> while it has not, else
                 \* <<its exit code, it was killed through its signal>>

vars ==
  <<dryRun, pod_timeout, spawnOnAwait, pc, stage, interrupted, aborted, watchAborted,
    podWatch, now, start, pollCount, ready, timer, listener, sleepResult,
    thrown, outcome, exitCode, sigints, intPc, stepLog, step3Code,
    watchStarts, watchStops, streams, cleanups, cleanupsDone, maxMs,
    intervalMs, fn, txtOp, txtIn, txtOut, pollOutcome, sleeps, sleepStart,
    cleanupCtx, cleanupCode, watchExit, queryCode, probed, aborts, fired>>

cfgVars == <<dryRun, pod_timeout, spawnOnAwait>>
sigVars == <<interrupted, aborted, sigints, intPc>>
watchVars == <<watchAborted, podWatch, watchStarts, watchStops>>
pollVars ==
  <<now, start, pollCount, ready, maxMs, intervalMs, pollOutcome, sleeps>>
sleepVars == <<timer, listener, sleepResult, sleepStart>>
callVars == <<fn, txtOp, txtIn, txtOut>>
exitVars == <<thrown, outcome, exitCode>>
cleanVars == <<cleanups, cleanupsDone>>
abortVars == <<aborts, fired>>
obsVars == <<cleanupCtx, cleanupCode, watchExit, queryCode, probed, abortVars>>

Steps == {"step1", "step2", "step3", "step4"}

PcValues ==
  Steps \cup {"probe", "sleep", "pollRet", "stream", "join", "cleanup", "settled"}

PollOutcomes == {"none", "Succeeded", "Aborted", "TimedOut", "Threw"}

TypeOK ==
  /\ dryRun \in BOOLEAN
  /\ pod_timeout \in 1..MaxPodTimeout
  /\ pc \in PcValues
  /\ stage \in {"none", "runner", "reporter"}
  /\ interrupted \in BOOLEAN
  /\ aborted \in BOOLEAN
  /\ watchAborted \in BOOLEAN
  /\ spawnOnAwait \in BOOLEAN
  /\ podWatch \in {"none", "created", "running", "exited"}
  /\ now \in Nat
  /\ start \in Nat
  /\ pollCount \in Nat
  /\ ready \in BOOLEAN
  /\ timer \in BOOLEAN
  /\ listener \in BOOLEAN
  /\ sleepResult \in {"none", "pending", "timeout", "aborted"}
  /\ thrown \in {"none", "getAwsEnv", "updateKubeconfig", "helmInstall",
               "waitForPods"}
  /\ outcome \in {"pending", "returned", "thrown"}
  /\ exitCode \in {NoExit, EXIT_OK, EXIT_UNCAUGHT, EXIT_SIGINT}
  /\ sigints \in 0..2
  /\ intPc \in PcValues \cup {"none"}
  /\ stepLog \in Seq(1..5)
  /\ step3Code \in {<<>>, <<0>>, <<1>>}
  /\ watchStarts \in Nat
  /\ watchStops \in Nat
  /\ streams \in Nat
  /\ cleanups \in Nat
  /\ cleanupsDone \in Nat
  /\ maxMs \in {<<>>, <<pod_timeout * 1000>>}
  /\ intervalMs = POLL_INTERVAL
  /\ pollOutcome \in PollOutcomes \ {"Threw"}
  /\ sleeps \in Nat
  /\ sleepStart \in Nat
  /\ callVars = <<<<>>, "none", <<>>, <<>>>>
  /\ cleanupCtx \in {<<>>, <<FALSE, "none">>}
  /\ cleanupCode \in {<<>>, <<0>>, <<1>>}
  /\ queryCode \in {<<>>, <<0>>, <<1>>}
  /\ probed \in {"none", "true", "false"}
  /\ aborts \in 0..1
  /\ fired \in 0..1
  /\ watchExit \in {<<>>, <<0, FALSE>>, <<1, FALSE>>, <<1, TRUE>>}

\* main has registered the SIGINT listener and runPipeline has started
\* step 1 (getAwsEnv).
Init ==
  /\ dryRun \in BOOLEAN
  /\ pod_timeout \in 1..MaxPodTimeout
  /\ spawnOnAwait \in BOOLEAN
  /\ pc = "step1"
  /\ stage = "none"
  /\ interrupted = FALSE
  /\ aborted = FALSE
  /\ watchAborted = FALSE
  /\ podWatch = "none"
  /\ now = 0
  /\ start = 0
  /\ pollCount = 0
  /\ ready = FALSE
  /\ timer = FALSE
  /\ listener = FALSE
  /\ sleepResult = "none"
  /\ thrown = "none"
  /\ outcome = "pending"
  /\ exitCode = NoExit
  /\ sigints = 0
  /\ intPc = "none"
  /\ stepLog = <<1>>
  /\ step3Code = <<>>
  /\ watchStarts = 0
  /\ watchStops = 0
  /\ streams = 0
  /\ cleanups = 0
  /\ cleanupsDone = 0
  /\ maxMs = <<>>
  /\ intervalMs = POLL_INTERVAL
  /\ pollOutcome = "none"
  /\ sleeps = 0
  /\ sleepStart = 0
  /\ queryCode = <<>>
  /\ probed = "none"
  /\ aborts = 0
  /\ fired = 0
  /\ watchExit = <<>>
  /\ cleanupCode = <<>>
  /\ cleanupCtx = <<>>
  /\ fn = <<>>
  /\ txtOp = "none"
  /\ txtIn = <<>>
  /\ txtOut = <<>>

Alive == exitCode = NoExit

\* ------------------------------------------------------------ SIGINT
\* abort.abort() with an onAbort that resolves the sleep but leaves the
\* timer armed (no clearTimeout).
AbortMain_NoClearTimeout(d) ==
  /\ aborted' = TRUE
  /\ aborts' = aborts + 1
  /\ IF ~aborted /\ listener
       THEN /\ d < intervalMs
            /\ timer' = timer
            /\ listener' = FALSE
            /\ sleepResult' = "aborted"
            /\ now' = now + d
            /\ fired' = fired + 1
       ELSE UNCHANGED <<timer, listener, sleepResult, now, fired>>

\* A signal that dispatches its "abort" event on every abort() call, to a
\* listener that stays registered (no once: true).
AbortMain_Redispatch(d) ==
  /\ aborted' = TRUE
  /\ aborts' = aborts + 1
  /\ IF listener
       THEN /\ d < intervalMs
            /\ timer' = FALSE
            /\ listener' = TRUE
            /\ sleepResult' = "aborted"
            /\ now' = (IF aborted THEN now ELSE now + d)
            /\ fired' = fired + 1
       ELSE UNCHANGED <<timer, listener, sleepResult, now, fired>>

\* abort(): on a signal that is not yet aborted, the signal becomes aborted
\* and its "abort" event runs the listener of a pending interruptibleSleep
\* (registered with once: true), which clears the timer and resolves the
\* sleep with "aborted"; on an aborted signal the call does nothing.
AbortMain(d) ==
  /\ aborted' = TRUE
  /\ aborts' = aborts + 1
  /\ IF ~aborted /\ listener
       THEN /\ d < intervalMs
            /\ timer' = FALSE
            /\ listener' = FALSE
            /\ sleepResult' = "aborted"
            /\ now' = now + d
            /\ fired' = fired + 1
       ELSE UNCHANGED <<timer, listener, sleepResult, now, fired>>

\* A handler that, besides setting the flag and the signal, starts the
\* compensating uninstall itself.
FirstSigint_RunsCleanup ==
  /\ Alive
  /\ ~interrupted
  /\ interrupted' = TRUE
  /\ \E d \in AbortDelays : AbortMain(d)
  /\ sigints' = sigints + 1
  /\ intPc' = pc
  /\ cleanups' = cleanups + 1
  /\ UNCHANGED <<cfgVars, cleanupCtx, cleanupCode, watchExit, queryCode, probed,
                 callVars, pc, stage, watchVars, start, pollCount, ready,
                 maxMs, intervalMs, pollOutcome, sleeps, sleepStart, exitVars,
                 stepLog, step3Code, streams, cleanupsDone>>

\* A handler that calls abort.abort() but never sets the flag.
FirstSigint_NoFlag ==
  /\ Alive
  /\ ~interrupted
  /\ UNCHANGED interrupted
  /\ \E d \in AbortDelays : AbortMain(d)
  /\ sigints' = sigints + 1
  /\ intPc' = pc
  /\ UNCHANGED <<cfgVars, cleanupCtx, cleanupCode, watchExit, queryCode, probed,
                 callVars, pc, stage, watchVars, start, pollCount, ready,
                 maxMs, intervalMs, pollOutcome, sleeps, sleepStart, exitVars,
                 stepLog, step3Code, streams, cleanVars>>

\* A handler that sets the flag but never calls abort.abort().
FirstSigint_NoAbort ==
  /\ Alive
  /\ ~interrupted
  /\ interrupted' = TRUE
  /\ sigints' = sigints + 1
  /\ intPc' = pc
  /\ UNCHANGED <<cfgVars, obsVars, callVars, pc, stage, aborted, watchVars, pollVars,
                 sleepVars, exitVars, stepLog, step3Code, streams, cleanVars>>

\* SIGINT handler, first press: interrupted = true; abort.abort().
FirstSigint ==
  /\ Alive
  /\ ~interrupted
  /\ interrupted' = TRUE
  /\ \E d \in AbortDelays : AbortMain(d)
  /\ sigints' = sigints + 1
  /\ intPc' = pc
  /\ UNCHANGED <<cfgVars, cleanupCtx, cleanupCode, watchExit, queryCode, probed,
                 callVars, pc, stage, watchVars, start, pollCount, ready,
                 maxMs, intervalMs, pollOutcome, sleeps, sleepStart, exitVars,
                 stepLog, step3Code, streams, cleanVars>>

\* A handler without the `if (interrupted) Deno.exit(130)` escape hatch.
SecondSigint_Ignored ==
  /\ Alive
  /\ interrupted
  /\ sigints < 2
  /\ sigints' = sigints + 1
  /\ UNCHANGED <<cfgVars, obsVars, callVars, pc, stage, interrupted, aborted, intPc, watchVars,
                 pollVars, sleepVars, exitVars, stepLog, step3Code, streams,
                 cleanVars>>

\* SIGINT handler, a press while interrupted is already true: Deno.exit(130).
SecondSigint ==
  /\ Alive
  /\ interrupted
  /\ exitCode' = EXIT_SIGINT
  /\ sigints' = sigints + 1
  /\ UNCHANGED <<cfgVars, obsVars, callVars, pc, stage, interrupted, aborted, intPc, watchVars,
                 pollVars, sleepVars, thrown, outcome, stepLog, step3Code,
                 streams, cleanVars>>

\* ------------------------------------------------------ steps 1 to 4
\* The promise of execute(cli, cfg) settles; main resumes in its try/catch.
Settle(err) ==
  /\ pc' = "settled"
  /\ thrown' = err
  /\ outcome' = IF err = "none" THEN "returned" ELSE "thrown"

\* Step 1, getAwsEnv returns the credentials; step 2 starts.
Step1Ok ==
  /\ Alive
  /\ pc = "step1"
  /\ pc' = "step2"
  /\ stepLog' = Append(stepLog, 2)
  /\ UNCHANGED <<cfgVars, obsVars, callVars, stage, sigVars, watchVars, pollVars, sleepVars,
                 exitVars, step3Code, streams, cleanVars>>

\* Step 1, `aws-vault exec` fails and getAwsEnv throws.
Step1Throw ==
  /\ Alive
  /\ pc = "step1"
  /\ Settle("getAwsEnv")
  /\ UNCHANGED <<cfgVars, obsVars, callVars, stage, sigVars, watchVars, pollVars, sleepVars,
                 exitCode, stepLog, step3Code, streams, cleanVars>>

\* Step 2, updateKubeconfig succeeds; step 3 starts.
Step2Ok ==
  /\ Alive
  /\ pc = "step2"
  /\ pc' = "step3"
  /\ stepLog' = Append(stepLog, 3)
  /\ UNCHANGED <<cfgVars, obsVars, callVars, stage, sigVars, watchVars, pollVars, sleepVars,
                 exitVars, step3Code, streams, cleanVars>>

\* Step 2 treated as best-effort: its error is swallowed and step 3 starts.
Step2Throw_Swallowed ==
  /\ Alive
  /\ pc = "step2"
  /\ thrown = "none"
  /\ thrown' = "updateKubeconfig"
  /\ pc' = "step3"
  /\ stepLog' = Append(stepLog, 3)
  /\ UNCHANGED <<cfgVars, obsVars, callVars, stage, sigVars, watchVars, pollVars, sleepVars,
                 outcome, exitCode, step3Code, streams, cleanVars>>

\* Step 2, `aws eks update-kubeconfig` exits non-zero and dax throws.
Step2Throw ==
  /\ Alive
  /\ pc = "step2"
  /\ Settle("updateKubeconfig")
  /\ UNCHANGED <<cfgVars, obsVars, callVars, stage, sigVars, watchVars, pollVars, sleepVars,
                 exitCode, stepLog, step3Code, streams, cleanVars>>

\* helmUninstall without .noThrow(): dax throws on a non-zero exit code.
helmUninstallThrows_NoNoThrow(code) == code # 0

\* helmUninstall runs helm with .noThrow(): whatever the exit code, it logs
\* and returns.
helmUninstallThrows(code) == FALSE

\* Step 3, helmUninstall(awsEnv, cfg, cli.dryRun) finishes with exit code
\* `code`; step 4 starts.
Step3Done ==
  /\ Alive
  /\ pc = "step3"
  /\ \E code \in {0, 1} :
       /\ step3Code' = <<code>>
       /\ IF helmUninstallThrows(code)
            THEN /\ Settle("helmUninstall")
                 /\ UNCHANGED stepLog
            ELSE /\ pc' = "step4"
                 /\ stepLog' = Append(stepLog, 4)
                 /\ UNCHANGED <<thrown, outcome>>
  /\ UNCHANGED <<cfgVars, obsVars, callVars, stage, sigVars, watchVars, pollVars, sleepVars,
                 exitCode, streams, cleanVars>>

\* Step 4, `helm install` exits non-zero and helmInstall throws.
Step4Throw ==
  /\ Alive
  /\ pc = "step4"
  /\ Settle("helmInstall")
  /\ UNCHANGED <<cfgVars, obsVars, callVars, stage, sigVars, watchVars, pollVars, sleepVars,
                 exitCode, stepLog, step3Code, streams, cleanVars>>

\* Step 4 succeeds in a dry run: runPipeline returns, step 5 is skipped.
Step4OkDryRun ==
  /\ Alive
  /\ pc = "step4"
  /\ dryRun
  /\ Settle("none")
  /\ UNCHANGED <<cfgVars, obsVars, callVars, stage, sigVars, watchVars, pollVars, sleepVars,
                 exitCode, stepLog, step3Code, streams, cleanVars>>

\* ------------------------------------------------------- monitoring
\* pollUntil with `while (true)`: the loop head does not look at the signal.
pollUntil_NoAbortCheck(st, t, cnt, mx) ==
  IF mx # <<>> /\ t - st >= mx[1]
    THEN /\ pc' = "pollRet"
         /\ ready' = FALSE
         /\ pollCount' = cnt
         /\ pollOutcome' = "TimedOut"
    ELSE /\ pc' = "probe"
         /\ ready' = FALSE
         /\ pollCount' = cnt + 1
         /\ pollOutcome' = "none"

\* pollUntil without the deadline check.
pollUntil_NoDeadline(st, t, cnt, mx) ==
  IF aborted
    THEN /\ pc' = "pollRet"
         /\ ready' = FALSE
         /\ pollCount' = cnt
         /\ pollOutcome' = "Aborted"
    ELSE /\ pc' = "probe"
         /\ ready' = FALSE
         /\ pollCount' = cnt + 1
         /\ pollOutcome' = "none"

\* pollUntil with the deadline test `Date.now() - start > maxMs`.
pollUntil_StrictDeadline(st, t, cnt, mx) ==
  IF aborted
    THEN /\ pc' = "pollRet"
         /\ ready' = FALSE
         /\ pollCount' = cnt
         /\ pollOutcome' = "Aborted"
    ELSE IF mx # <<>> /\ t - st > mx[1]
      THEN /\ pc' = "pollRet"
           /\ ready' = FALSE
           /\ pollCount' = cnt
           /\ pollOutcome' = "TimedOut"
      ELSE /\ pc' = "probe"
           /\ ready' = FALSE
           /\ pollCount' = cnt + 1
           /\ pollOutcome' = "none"

\* pollUntil's loop head at time t, st being its `start`, cnt the probes
\* made so far and mx its `maxMs`: leave the loop (return false) when the
\* signal is aborted, return false when the deadline has passed, otherwise
\* call fn (in waitForPods its first statement is pollCount++) and await it.
pollUntil(st, t, cnt, mx) ==
  IF aborted
    THEN /\ pc' = "pollRet"
         /\ ready' = FALSE
         /\ pollCount' = cnt
         /\ pollOutcome' = "Aborted"
    ELSE IF mx # <<>> /\ t - st >= mx[1]
      THEN /\ pc' = "pollRet"
           /\ ready' = FALSE
           /\ pollCount' = cnt
           /\ pollOutcome' = "TimedOut"
      ELSE /\ pc' = "probe"
           /\ ready' = FALSE
           /\ pollCount' = cnt + 1
           /\ pollOutcome' = "none"

\* waitForPods(label, cfg.pod_timeout * 1000) is called at time `now`: it
\* calls pollUntil(fn, POLL_INTERVAL, abort.signal, timeoutMs).
waitForPods(label) ==
  /\ stage' = label
  /\ start' = now
  /\ maxMs' = <<pod_timeout * 1000>>
  /\ intervalMs' = POLL_INTERVAL
  /\ sleeps' = 0
  /\ pollUntil(now, now, 0, <<pod_timeout * 1000>>)

\* monitorGatling's finally block up to its first await:
\* watchAbort.abort(); await podWatch.  Awaiting a command whose process
\* has not been started starts it.
Finally(err) ==
  /\ watchAborted' = TRUE
  /\ watchStops' = watchStops + 1
  /\ podWatch' = (IF podWatch = "created" THEN "running" ELSE podWatch)
  /\ thrown' = err
  /\ pc' = "join"

\* runPipeline without `if (cli.dryRun) return;`: a dry run goes on to
\* monitorGatling.
Step4OkMonitor_NoDryRunCheck ==
  /\ Alive
  /\ pc = "step4"
  /\ stepLog' = Append(stepLog, 5)
  /\ podWatch' = (IF spawnOnAwait THEN "created" ELSE "running")
  /\ watchStarts' = watchStarts + 1
  /\ waitForPods("runner")
  /\ UNCHANGED <<cfgVars, obsVars, callVars, sigVars, watchAborted, watchStops, now, sleepVars,
                 exitVars, step3Code, streams, cleanVars>>

\* Step 4 succeeds in a real run: monitorGatling creates the pod watch
\* command without awaiting it (its process starts now, or only when the
\* command is awaited) and calls waitForPods for the runner pods.
Step4OkMonitor ==
  /\ Alive
  /\ pc = "step4"
  /\ ~dryRun
  /\ stepLog' = Append(stepLog, 5)
  /\ podWatch' = (IF spawnOnAwait THEN "created" ELSE "running")
  /\ watchStarts' = watchStarts + 1
  /\ waitForPods("runner")
  /\ UNCHANGED <<cfgVars, obsVars, callVars, sigVars, watchAborted, watchStops, now, sleepVars,
                 exitVars, step3Code, streams, cleanVars>>

\* interruptibleSleep without the `if (signal.aborted)` early return: the
\* abort event has already been dispatched, so only the timer can end it.
interruptibleSleep_NoEarlyReturn(t) ==
  /\ pc' = "sleep"
  /\ sleepStart' = t
  /\ sleepResult' = "pending"
  /\ timer' = TRUE
  /\ listener' = TRUE

\* interruptibleSleep(intervalMs, signal) as called by pollUntil at time t
\* after a probe that returned false: with an aborted signal it returns a
\* promise already resolved with "aborted" and arms nothing, otherwise it
\* arms the timer and registers onAbort.
interruptibleSleep(t) ==
  /\ pc' = "sleep"
  /\ sleepStart' = t
  /\ IF aborted
       THEN /\ sleepResult' = "aborted"
            /\ UNCHANGED <<timer, listener>>
       ELSE /\ sleepResult' = "pending"
            /\ timer' = TRUE
            /\ listener' = TRUE

\* pollUntil with the test of the probe's result inverted.
AfterProbe_Inverted(result, t) ==
  /\ probed' = result
  /\ IF result = "throw"
       THEN /\ pc' = "pollRet"
            /\ ready' = FALSE
            /\ pollOutcome' = "Threw"
            /\ thrown' = "fn"
            /\ UNCHANGED sleepVars
       ELSE IF result = "false"
         THEN /\ pc' = "pollRet"
              /\ ready' = TRUE
              /\ pollOutcome' = "Succeeded"
              /\ UNCHANGED <<sleepVars, thrown>>
         ELSE /\ interruptibleSleep(t)
              /\ UNCHANGED <<ready, pollOutcome, thrown>>

\* pollUntil catching the probe's error and polling on (retry on error).
AfterProbe_RetryOnError(result, t) ==
  /\ probed' = result
  /\ IF result = "true"
       THEN /\ pc' = "pollRet"
            /\ ready' = TRUE
            /\ pollOutcome' = "Succeeded"
            /\ UNCHANGED <<sleepVars, thrown>>
       ELSE /\ interruptibleSleep(t)
            /\ UNCHANGED <<ready, pollOutcome, thrown>>

\* pollUntil looking at the signal again after `await fn()` and returning
\* false when it is set, whatever fn returned (cancellation wins).
AfterProbe_AbortWins(result, t) ==
  /\ probed' = result
  /\ IF result = "throw"
       THEN /\ pc' = "pollRet"
            /\ ready' = FALSE
            /\ pollOutcome' = "Threw"
            /\ thrown' = "fn"
            /\ UNCHANGED sleepVars
       ELSE IF aborted
         THEN /\ pc' = "pollRet"
              /\ ready' = FALSE
              /\ pollOutcome' = "Aborted"
              /\ UNCHANGED <<sleepVars, thrown>>
         ELSE IF result = "true"
           THEN /\ pc' = "pollRet"
                /\ ready' = TRUE
                /\ pollOutcome' = "Succeeded"
                /\ UNCHANGED <<sleepVars, thrown>>
           ELSE /\ interruptibleSleep(t)
                /\ UNCHANGED <<ready, pollOutcome, thrown>>

\* pollUntil resumes at time t with what `await fn()` produced: an error of
\* fn leaves pollUntil as it is, true returns true, false goes to sleep.
AfterProbe(result, t) ==
  /\ probed' = result
  /\ IF result = "throw"
       THEN /\ pc' = "pollRet"
            /\ ready' = FALSE
            /\ pollOutcome' = "Threw"
            /\ thrown' = "fn"
            /\ UNCHANGED sleepVars
       ELSE IF result = "true"
         THEN /\ pc' = "pollRet"
              /\ ready' = TRUE
              /\ pollOutcome' = "Succeeded"
              /\ UNCHANGED <<sleepVars, thrown>>
         ELSE /\ interruptibleSleep(t)
              /\ UNCHANGED <<ready, pollOutcome, thrown>>

\* The status query started without .noThrow(): dax throws on a non-zero
\* exit code.
kubectlThrows_NoNoThrow(code) == code # 0

\* The status query is run with .quiet().noThrow().text(): whatever the exit
\* code, the probe gets what the query printed on stdout.
kubectlThrows(code) == FALSE

\* The status query of the probe finishes after d ms with exit code `code`
\* having printed `output` (a failed query prints its error on stderr and
\* nothing on stdout); fn returns, and pollUntil returns true or goes to
\* sleep.
ProbeDone ==
  /\ Alive
  /\ pc = "probe"
  /\ \E output \in KubectlOutputs, d \in ProbeDelays, code \in {0, 1} :
       /\ code # 0 => output = <<>>
       /\ queryCode' = <<code>>
       /\ now' = now + d
       /\ AfterProbe(IF kubectlThrows(code) THEN "throw"
                     ELSE IF ProbeResult(output) THEN "true" ELSE "false",
                     now + d)
  /\ UNCHANGED <<cfgVars, cleanupCtx, cleanupCode, watchExit, abortVars,
                 callVars, stage, sigVars, watchVars, start, pollCount,
                 maxMs, intervalMs, sleeps, outcome, exitCode, stepLog,
                 step3Code, streams, cleanVars>>

\* The timer of the pending sleep fires: it removes onAbort and resolves
\* the sleep with "timeout".
TimerFires ==
  /\ Alive
  /\ pc = "sleep"
  /\ timer
  /\ timer' = FALSE
  /\ listener' = FALSE
  /\ sleepResult' = "timeout"
  /\ now' = now + intervalMs
  /\ sleeps' = sleeps + 1
  /\ UNCHANGED <<cfgVars, obsVars, callVars, pc, stage, sigVars, watchVars, start, pollCount,
                 ready, maxMs, intervalMs, pollOutcome, sleepStart, exitVars,
                 stepLog, step3Code, streams, cleanVars>>

\* pollUntil resumes after the sleep: return false on "aborted", otherwise
\* back to the loop head.
SleepResume ==
  /\ Alive
  /\ pc = "sleep"
  /\ sleepResult \in {"timeout", "aborted"}
  /\ sleepResult' = "none"
  /\ IF sleepResult = "aborted"
       THEN /\ pc' = "pollRet"
            /\ ready' = FALSE
            /\ pollOutcome' = "Aborted"
            /\ UNCHANGED pollCount
       ELSE pollUntil(start, now, pollCount, maxMs)
  /\ UNCHANGED <<cfgVars, obsVars, callVars, stage, sigVars, watchVars, now, start, timer,
                 listener, sleepStart, maxMs, intervalMs, sleeps, exitVars,
                 stepLog, step3Code, streams, cleanVars>>

\* monitorGatling with the teardown after the try block instead of in a
\* finally: the timeout error leaves monitorGatling at once.
PollReturn_NoFinally ==
  /\ Alive
  /\ pc = "pollRet"
  /\ IF ~ready /\ ~aborted
       THEN /\ Settle("waitForPods")
            /\ UNCHANGED <<streams, watchAborted, watchStops, podWatch>>
       ELSE IF aborted
         THEN /\ Finally("none")
              /\ UNCHANGED <<streams, outcome>>
         ELSE /\ pc' = "stream"
              /\ streams' = streams + 1
              /\ UNCHANGED <<watchAborted, watchStops, podWatch, thrown, outcome>>
  /\ UNCHANGED <<cfgVars, obsVars, callVars, stage, sigVars, watchStarts, pollVars,
                 sleepVars, exitCode, stepLog, step3Code, cleanVars>>

\* waitForPods throwing whenever pollUntil returned false, without looking
\* at abort.signal.
PollReturn_ThrowOnAbort ==
  /\ Alive
  /\ pc = "pollRet"
  /\ IF ~ready
       THEN /\ Finally("waitForPods")
            /\ UNCHANGED streams
       ELSE IF aborted
         THEN /\ Finally("none")
              /\ UNCHANGED streams
         ELSE /\ pc' = "stream"
              /\ streams' = streams + 1
              /\ UNCHANGED <<watchAborted, watchStops, podWatch, thrown>>
  /\ UNCHANGED <<cfgVars, obsVars, callVars, stage, sigVars, watchStarts,
                 pollVars, sleepVars, outcome, exitCode, stepLog, step3Code,
                 cleanVars>>

\* waitForPods resumes with pollUntil's result: it throws the timeout error
\* when the result is false and the signal is not aborted, otherwise it
\* returns; monitorGatling's guard then returns when the signal is aborted
\* and starts the log stream otherwise.  A throw and a return both enter
\* the finally block.
PollReturn ==
  /\ Alive
  /\ pc = "pollRet"
  /\ IF ~ready /\ ~aborted
       THEN /\ Finally("waitForPods")
            /\ UNCHANGED streams
       ELSE IF aborted
         THEN /\ Finally("none")
              /\ UNCHANGED streams
         ELSE /\ pc' = "stream"
              /\ streams' = streams + 1
              /\ UNCHANGED <<watchAborted, watchStops, podWatch, thrown>>
  /\ UNCHANGED <<cfgVars, obsVars, callVars, stage, sigVars, watchStarts, pollVars,
                 sleepVars, outcome, exitCode, stepLog, step3Code, cleanVars>>

\* monitorGatling without `if (abort.signal.aborted) return;` after
\* streamLogs.
StreamDone_NoGuard ==
  /\ Alive
  /\ pc = "stream"
  /\ IF stage = "reporter"
       THEN /\ Finally("none")
            /\ UNCHANGED <<stage, start, pollCount, ready, maxMs, intervalMs,
                           pollOutcome, sleeps>>
       ELSE /\ waitForPods("reporter")
            /\ UNCHANGED <<watchAborted, watchStops, podWatch, thrown>>
  /\ UNCHANGED <<cfgVars, obsVars, callVars, sigVars, watchStarts, now, sleepVars,
                 outcome, exitCode, stepLog, step3Code, streams, cleanVars>>

\* streamLogs returns: `kubectl logs -f` ended, by itself or killed through
\* abort.signal (.noThrow()).  The guard returns when the signal is aborted;
\* otherwise the runner stage is followed by waitForPods for the reporter
\* and the reporter stage ends the try block.
StreamDone ==
  /\ Alive
  /\ pc = "stream"
  /\ IF aborted \/ stage = "reporter"
       THEN /\ Finally("none")
            /\ UNCHANGED <<stage, start, pollCount, ready, maxMs, intervalMs,
                           pollOutcome, sleeps>>
       ELSE /\ waitForPods("reporter")
            /\ UNCHANGED <<watchAborted, watchStops, podWatch, thrown>>
  /\ UNCHANGED <<cfgVars, obsVars, callVars, sigVars, watchStarts, now, sleepVars,
                 outcome, exitCode, stepLog, step3Code, streams, cleanVars>>

\* The signal a process started with .signal(sig) is killed through; a
\* process started without .signal() is bound to none.
SignalSet(sig) ==
  IF sig = "abort" THEN aborted
  ELSE IF sig = "watchAbort" THEN watchAborted
  ELSE FALSE

\* The pod watch started without .signal(): nothing ends it at teardown.
WatchSignal_None == "none"

\* The pod watch started with .signal(abort.signal).
WatchSignal_Main == "abort"

\* The pod watch is started with .signal(watchAbort.signal), the signal of
\* monitorGatling's own AbortController.
WatchSignal == "watchAbort"

\* The signal the pod watch is bound to is set.
WatchSignalSet == SignalSet(WatchSignal)

\* The pod watch process terminates: killed through the signal it is bound
\* to once that signal is set (a killed process has a non-zero exit code),
\* or by itself at any time, with or without an error.
WatchExits ==
  /\ Alive
  /\ podWatch = "running"
  /\ podWatch' = "exited"
  /\ \E code \in {0, 1}, killed \in BOOLEAN :
       /\ killed => (WatchSignalSet /\ code = 1)
       /\ watchExit' = <<code, killed>>
  /\ UNCHANGED <<cfgVars, cleanupCtx, cleanupCode, queryCode, probed, abortVars,
                 callVars, pc, stage, sigVars, watchAborted, watchStarts,
                 watchStops, pollVars, sleepVars, exitVars, stepLog,
                 step3Code, streams, cleanVars>>

\* The third argument of the finally block's helmUninstall(awsEnv, cfg,
\* false): not a dry run.
CleanupDryRun == FALSE

\* helmUninstall starting helm with .signal(abort.signal).
CleanupSignal_Main == "abort"

\* helmUninstall starts helm with .env().noThrow().quiet() and no
\* .signal(): the process is bound to no signal.
CleanupSignal == "none"

\* The finally block deciding on the flag as it was before `await podWatch`
\* (`const was = interrupted; await podWatch; if (was)`): an interrupt that
\* arrives during the join is not seen.
CleanupWanted_ReadBeforeJoin == interrupted /\ intPc # "join"

\* The finally block without the cleanup branch.
CleanupWanted_Never == FALSE

\* The finally block uninstalling whether or not a SIGINT was received.
CleanupWanted_Always == TRUE

\* `if (interrupted)` of the finally block.
CleanupWanted == interrupted

\* The pod watch started without .noThrow(): dax rejects its promise on a
\* non-zero exit code.
podWatchThrows_NoNoThrow(code) == code # 0

\* The pod watch is started with .noThrow(): its promise is fulfilled
\* whatever the exit code.
podWatchThrows(code) == FALSE

\* The finally block without `await podWatch`: it goes on while the watch
\* may still be running.
JoinDone_NoAwait ==
  /\ Alive
  /\ pc = "join"
  /\ IF CleanupWanted
       THEN /\ pc' = "cleanup"
            /\ cleanups' = cleanups + 1
            /\ cleanupCtx' = <<CleanupDryRun, CleanupSignal>>
            /\ UNCHANGED <<thrown, outcome>>
       ELSE /\ Settle(thrown)
            /\ UNCHANGED <<cleanups, cleanupCtx>>
  /\ UNCHANGED <<cfgVars, callVars, stage, sigVars, watchVars, pollVars,
                 sleepVars, exitCode, stepLog, step3Code, streams,
                 cleanupsDone, cleanupCode, watchExit, queryCode, probed, abortVars>>

\* `await podWatch` settles (the watch was started with .noThrow(), so never
\* with an error): the finally block reads `interrupted` and
\* starts helmUninstall(awsEnv, cfg, false), or ends, which settles
\* monitorGatling with the error of the try block, if any.
JoinDone ==
  /\ Alive
  /\ pc = "join"
  /\ podWatch = "exited"
  /\ IF podWatchThrows(watchExit[1])
       THEN /\ Settle("podWatch")
            /\ UNCHANGED <<cleanups, cleanupCtx>>
       ELSE IF CleanupWanted
         THEN /\ pc' = "cleanup"
              /\ cleanups' = cleanups + 1
              /\ cleanupCtx' = <<CleanupDryRun, CleanupSignal>>
              /\ UNCHANGED <<thrown, outcome>>
         ELSE /\ Settle(thrown)
              /\ UNCHANGED <<cleanups, cleanupCtx>>
  /\ UNCHANGED <<cfgVars, callVars, stage, sigVars, watchVars, pollVars,
                 sleepVars, exitCode, stepLog, step3Code, streams,
                 cleanupsDone, cleanupCode, watchExit, queryCode, probed, abortVars>>

\* A finally block that resets the flag once the compensating uninstall is
\* done (`interrupted = false`).
CleanupDone_ClearsInterrupt ==
  /\ Alive
  /\ pc = "cleanup"
  /\ interrupted' = FALSE
  /\ \E code \in {0, 1} :
       /\ SignalSet(cleanupCtx[2]) => code = 1
       /\ cleanupCode' = <<code>>
       /\ cleanupsDone' =
            IF SignalSet(cleanupCtx[2]) THEN cleanupsDone ELSE cleanupsDone + 1
       /\ IF helmUninstallThrows(code)
            THEN Settle("helmUninstall")
            ELSE Settle(thrown)
  /\ UNCHANGED <<cfgVars, callVars, stage, aborted, sigints, intPc, watchVars,
                 pollVars, sleepVars, exitCode, stepLog, step3Code, streams,
                 cleanups, cleanupCtx, watchExit, queryCode, probed, abortVars>>

\* helmUninstall ending the process with status 1 when helm fails.
CleanupDone_ExitOnFailure ==
  /\ Alive
  /\ pc = "cleanup"
  /\ \E code \in {0, 1} :
       /\ SignalSet(cleanupCtx[2]) => code = 1
       /\ cleanupCode' = <<code>>
       /\ cleanupsDone' =
            IF SignalSet(cleanupCtx[2]) THEN cleanupsDone ELSE cleanupsDone + 1
       /\ IF code # 0
            THEN /\ exitCode' = EXIT_UNCAUGHT
                 /\ UNCHANGED <<pc, thrown, outcome>>
            ELSE /\ Settle(thrown)
                 /\ UNCHANGED exitCode
  /\ UNCHANGED <<cfgVars, callVars, stage, sigVars, watchVars, pollVars,
                 sleepVars, stepLog, step3Code, streams, cleanups,
                 cleanupCtx, watchExit, queryCode, probed, abortVars>>

\* The compensating helmUninstall returns: helm exited with any code (with a
\* failure at once if the signal it is bound to is set), .noThrow() keeps a
\* non-zero code from throwing, and the finally block ends, which settles
\* monitorGatling with the error of the try block, if any.
CleanupDone ==
  /\ Alive
  /\ pc = "cleanup"
  /\ \E code \in {0, 1} :
       /\ SignalSet(cleanupCtx[2]) => code = 1
       /\ cleanupCode' = <<code>>
       /\ cleanupsDone' =
            IF SignalSet(cleanupCtx[2]) THEN cleanupsDone ELSE cleanupsDone + 1
       /\ IF helmUninstallThrows(code)
            THEN Settle("helmUninstall")
            ELSE Settle(thrown)
  /\ UNCHANGED <<cfgVars, callVars, stage, sigVars, watchVars, pollVars,
                 sleepVars, exitCode, stepLog, step3Code, streams, cleanups,
                 cleanupCtx, watchExit, queryCode, probed, abortVars>>

\* --------------------------------------------------------------- main
\* A catch block that rethrows without looking at `interrupted`.
MainCatchExit_Rethrow == EXIT_UNCAUGHT

\* main without the `if (interrupted) Deno.exit(130)` after the try/catch.
MainReturnExit_Plain == EXIT_OK

\* main's catch block: Deno.exit(130) when interrupted, otherwise rethrow,
\* and the uncaught error ends the process with status 1.
MainCatchExit == IF interrupted THEN EXIT_SIGINT ELSE EXIT_UNCAUGHT

\* The statement after main's try/catch: Deno.exit(130) when interrupted,
\* otherwise main returns and the process ends with status 0.
MainReturnExit == IF interrupted THEN EXIT_SIGINT ELSE EXIT_OK

MainCatch ==
  /\ Alive
  /\ pc = "settled"
  /\ outcome = "thrown"
  /\ exitCode' = MainCatchExit
  /\ UNCHANGED <<cfgVars, obsVars, callVars, pc, stage, sigVars, watchVars, pollVars, sleepVars,
                 thrown, outcome, stepLog, step3Code, streams, cleanVars>>

MainReturn ==
  /\ Alive
  /\ pc = "settled"
  /\ outcome = "returned"
  /\ exitCode' = MainReturnExit
  /\ UNCHANGED <<cfgVars, obsVars, callVars, pc, stage, sigVars, watchVars, pollVars, sleepVars,
                 thrown, outcome, stepLog, step3Code, streams, cleanVars>>

Next ==
  \/ FirstSigint
  \/ SecondSigint
  \/ Step1Ok
  \/ Step1Throw
  \/ Step2Ok
  \/ Step2Throw
  \/ Step3Done
  \/ Step4Throw
  \/ Step4OkDryRun
  \/ Step4OkMonitor
  \/ ProbeDone
  \/ TimerFires
  \/ SleepResume
  \/ PollReturn
  \/ StreamDone
  \/ WatchExits
  \/ JoinDone
  \/ CleanupDone
  \/ MainCatch
  \/ MainReturn

Spec == Init /\ [][Next]_vars

\* ------------------------------------------------- pollUntil, called directly
\* pollUntil(fn, intervalMs, ac.signal, maxMs?) called as the tests call it:
\* with any probe, with or without maxMs, with a signal that may already be
\* aborted and that the caller may abort while the call is pending.
FnResults == {"true", "false", "throw"}

FnScripts == UNION {[1..n -> FnResults] : n \in 1..MaxScript}

\* What the n-th invocation of the probe f produces.
FnResult(f, n) == IF n <= Len(f) THEN f[n] ELSE f[Len(f)]

\* The pipeline under the scheduling the program relies on: the event loop
\* runs every continuation and timer that is due; every external command of
\* a step, a status query and a helm uninstall eventually ends; `kubectl
\* logs -f` and `kubectl get pod -w` are only known to end once the signal
\* they are bound to is set.  Nothing obliges a SIGINT to arrive.
FairSpec ==
  /\ Spec
  /\ WF_vars(Step1Ok \/ Step1Throw)
  /\ WF_vars(Step2Ok \/ Step2Throw)
  /\ WF_vars(Step3Done)
  /\ WF_vars(Step4Throw \/ Step4OkDryRun \/ Step4OkMonitor)
  /\ WF_vars(ProbeDone)
  /\ WF_vars(TimerFires)
  /\ WF_vars(SleepResume)
  /\ WF_vars(PollReturn)
  /\ WF_vars(StreamDone /\ SignalSet("abort"))
  /\ WF_vars(WatchExits /\ WatchSignalSet)
  /\ WF_vars(JoinDone)
  /\ WF_vars(CleanupDone)
  /\ WF_vars(MainCatch \/ MainReturn)

PollInit ==
  /\ dryRun = FALSE
  /\ pod_timeout = 1
  /\ spawnOnAwait = FALSE
  /\ pc = "call"
  /\ stage = "none"
  /\ interrupted = FALSE
  /\ aborted \in BOOLEAN
  /\ watchAborted = FALSE
  /\ podWatch = "none"
  /\ now = 0
  /\ start = 0
  /\ pollCount = 0
  /\ ready = FALSE
  /\ timer = FALSE
  /\ listener = FALSE
  /\ sleepResult = "none"
  /\ thrown = "none"
  /\ outcome = "pending"
  /\ exitCode = NoExit
  /\ sigints = 0
  /\ intPc = "none"
  /\ stepLog = <<>>
  /\ step3Code = <<>>
  /\ watchStarts = 0
  /\ watchStops = 0
  /\ streams = 0
  /\ cleanups = 0
  /\ cleanupsDone = 0
  /\ maxMs \in {<<>>} \cup {<<1000 * m>> : m \in 0..MaxMaxSec}
  /\ intervalMs \in Intervals
  /\ pollOutcome = "none"
  /\ sleeps = 0
  /\ sleepStart = 0
  /\ queryCode = <<>>
  /\ probed = "none"
  /\ aborts = (IF aborted THEN 1 ELSE 0)
  /\ fired = 0
  /\ watchExit = <<>>
  /\ cleanupCode = <<>>
  /\ cleanupCtx = <<>>
  /\ fn \in FnScripts
  /\ txtOp = "none"
  /\ txtIn = <<>>
  /\ txtOut = <<>>

\* The call: `const start = Date.now()` and the first pass of the loop head.
CallPollUntil ==
  /\ pc = "call"
  /\ start' = now
  /\ pollUntil(now, now, 0, maxMs)
  /\ UNCHANGED <<cfgVars, obsVars, callVars, stage, sigVars, watchVars, now, maxMs,
                 intervalMs, sleeps, sleepVars, exitVars, stepLog, step3Code,
                 streams, cleanVars>>

\* The promise of the pending probe invocation settles after d ms.
FnSettles ==
  /\ pc = "probe"
  /\ fn # <<>>
  /\ pollCount <= MaxPolls
  /\ \E d \in ProbeDelays :
       /\ now' = now + d
       /\ AfterProbe(FnResult(fn, pollCount), now + d)
  /\ UNCHANGED <<cfgVars, cleanupCtx, cleanupCode, watchExit, queryCode,
                 abortVars, callVars, stage, sigVars, watchVars, start, pollCount,
                 maxMs, intervalMs, sleeps, outcome, exitCode, stepLog,
                 step3Code, streams, cleanVars>>

\* The caller calls ac.abort() while the call is pending, possibly more
\* than once.
AbortCall ==
  /\ pc \in {"probe", "sleep"}
  /\ fn # <<>>
  /\ aborts < MaxAborts
  /\ \E d \in AbortDelays : AbortMain(d)
  /\ UNCHANGED <<cfgVars, cleanupCtx, cleanupCode, watchExit, queryCode, probed,
                 callVars, pc, stage, interrupted, sigints, intPc,
                 watchVars, start, pollCount, ready, maxMs, intervalMs,
                 pollOutcome, sleeps, sleepStart, exitVars, stepLog, step3Code,
                 streams, cleanVars>>

PollNext ==
  \/ CallPollUntil
  \/ FnSettles
  \/ AbortCall
  \/ TimerFires
  \/ SleepResume

PollSpec == PollInit /\ [][PollNext]_vars

\* The probe, the timer and the continuations of pollUntil are run by the
\* event loop whenever they are due.
FairPollSpec ==
  /\ PollSpec
  /\ WF_vars(CallPollUntil)
  /\ WF_vars(FnSettles)
  /\ WF_vars(TimerFires)
  /\ WF_vars(SleepResume)

\* ------------------------- parsePodStatus and isPodReady, called directly
Completed == <<"C", "o", "m", "p", "l", "e", "t", "e", "d">>
CrashLoopBackOff ==
  <<"C", "r", "a", "s", "h", "L", "o", "o", "p",
    "B", "a", "c", "k", "O", "f", "f">>
Error == <<"E", "r", "r", "o", "r">>
InitNoColon == <<"I", "n", "i", "t">>

\* All strings over the alphabet a of length at most n.
Strings(a, n) == UNION {[1..k -> a] : k \in 0..n}

\* Lines handed to parsePodStatus: column text and the whitespace of
\* kubectl's column alignment.
Lines == Strings({"a", "b", SP, TAB}, MaxLineLen)

\* Labels handed to isPodReady: the STATUS values the tests name, their
\* prefixes, and "Init" / "Init:" followed by counts or other text.
NamedLabels ==
  {Running, Completed, CrashLoopBackOff, Error,
   Pending, ContainerCreating, PodInitializing, InitZeroOne}

Labels ==
  NamedLabels
    \cup UNION {{SubSeq(l, 1, k) : k \in 0..Len(l)} : l \in NamedLabels}
    \cup {pre \o tail : pre \in {InitPrefix, InitNoColon},
                        tail \in Strings({"0", "1", "/", "E"}, MaxTail)}

TextInit ==
  /\ dryRun = FALSE
  /\ pod_timeout = 1
  /\ spawnOnAwait = FALSE
  /\ pc = "text"
  /\ stage = "none"
  /\ interrupted = FALSE
  /\ aborted = FALSE
  /\ watchAborted = FALSE
  /\ podWatch = "none"
  /\ now = 0
  /\ start = 0
  /\ pollCount = 0
  /\ ready = FALSE
  /\ maxMs = <<>>
  /\ intervalMs = POLL_INTERVAL
  /\ timer = FALSE
  /\ listener = FALSE
  /\ sleepResult = "none"
  /\ thrown = "none"
  /\ outcome = "pending"
  /\ exitCode = NoExit
  /\ sigints = 0
  /\ intPc = "none"
  /\ stepLog = <<>>
  /\ step3Code = <<>>
  /\ watchStarts = 0
  /\ watchStops = 0
  /\ streams = 0
  /\ cleanups = 0
  /\ cleanupsDone = 0
  /\ pollOutcome = "none"
  /\ sleeps = 0
  /\ sleepStart = 0
  /\ queryCode = <<>>
  /\ probed = "none"
  /\ aborts = 0
  /\ fired = 0
  /\ watchExit = <<>>
  /\ cleanupCode = <<>>
  /\ cleanupCtx = <<>>
  /\ fn = <<>>
  /\ txtOut = <<>>
  /\ \/ txtOp = "parsePodStatus" /\ txtIn \in Lines
     \/ txtOp = "isPodReady" /\ txtIn \in Labels

\* parsePodStatus(line)
CallParsePodStatus ==
  /\ txtOp = "parsePodStatus"
  /\ txtOut = <<>>
  /\ txtOut' = <<parsePodStatus(txtIn)>>
  /\ UNCHANGED <<cfgVars, obsVars, pc, stage, sigVars, watchVars, pollVars, sleepVars,
                 fn, txtOp, txtIn, exitVars, stepLog, step3Code, streams,
                 cleanVars>>

\* isPodReady(status)
CallIsPodReady ==
  /\ txtOp = "isPodReady"
  /\ txtOut = <<>>
  /\ txtOut' = <<isPodReady(txtIn)>>
  /\ UNCHANGED <<cfgVars, obsVars, pc, stage, sigVars, watchVars, pollVars, sleepVars,
                 fn, txtOp, txtIn, exitVars, stepLog, step3Code, streams,
                 cleanVars>>

TextNext == CallParsePodStatus \/ CallIsPodReady

TextSpec == TextInit /\ [][TextNext]_vars

\* ----------------------------------------------------------- properties
\* InterruptState of the SIGINT handler: Idle until the first press,
\* Interrupting after it, ForceExit once a second press has ended the
\* process.
InterruptState ==
  IF ~interrupted THEN "Idle"
  ELSE IF sigints >= 2 THEN "ForceExit"
  ELSE "Interrupting"

\* The terminal classification of a run, from what happened in it: a run in
\* which a SIGINT was received is Interrupted, otherwise it is Failed when
\* the pipeline threw and Completed when it returned.
Classification ==
  IF sigints >= 1 THEN "Interrupted"
  ELSE IF outcome = "thrown" THEN "Failed"
  ELSE IF outcome = "returned" THEN "Completed"
  ELSE "Running"

\* The monitoring phase was entered (the pod watch was started).
MonitorEntered == watchStarts >= 1

C2_NoStepAfterInterrupt ==
  [][aborted => stepLog' = stepLog]_vars

\* C3: whenever the monitoring phase was entered and monitorGatling has
\* settled (returned, thrown, or returned early on an interrupt), the watch's
\* own signal has been set, once, and the watch has terminated.
C3_TeardownUnconditional ==
  (MonitorEntered /\ pc = "settled") =>
    (watchAborted /\ watchStops = 1 /\ podWatch = "exited")

\* C3 witness: monitorGatling settled with the pod timeout error.
C3_Witness ==
  /\ pc = "settled"
  /\ thrown = "waitForPods"
  /\ sigints = 0
  /\ watchAborted
  /\ podWatch = "exited"

\* C4: the compensating uninstall is never started before the pod watch has
\* been told to stop and has terminated, and the stop is performed at most
\* once, exactly once by the time the watch is joined, also when the
\* monitored phase threw.
C4_TeardownOrder ==
  /\ cleanups >= 1 => (watchAborted /\ watchStops = 1 /\ podWatch = "exited")
  /\ watchStops <= 1
  /\ pc \in {"join", "cleanup"} => watchStops = 1
  /\ (thrown = "waitForPods" /\ MonitorEntered) => watchStops = 1

\* C4 witness: the monitored phase threw, an interrupt arrived during the
\* join, and the compensating uninstall has started.
C4_Witness ==
  /\ pc = "cleanup"
  /\ thrown = "waitForPods"
  /\ intPc = "join"

\* C5: when the join of the finally block returns, the compensating
\* uninstall is started if and only if InterruptState is not Idle, and it
\* is started nowhere else: a run without interrupt performs none, and a
\* run interrupted before teardown whose monitorGatling settles performed
\* one.
C5_CleanupIffInterrupted ==
  /\ [][(pc = "join" /\ pc' # "join") =>
          ((pc' = "cleanup" /\ cleanups' = cleanups + 1)
             <=> InterruptState # "Idle")]_vars
  /\ [][cleanups' # cleanups => pc = "join"]_vars
  /\ [](sigints = 0 => cleanups = 0)
  /\ []((pc = "settled" /\ MonitorEntered
          /\ intPc \in PcValues \ {"join", "settled"}) => cleanupsDone = 1)

\* C5 witness: interrupted during a status query, teardown done, one
\* compensating uninstall performed.
C5_Witness ==
  /\ pc = "settled"
  /\ intPc = "probe"
  /\ cleanupsDone = 1

\* C6: a second interrupt ends the process at once with exit code 130, and
\* after it no step, status query, log stream, watch stop or compensating
\* uninstall is started or completed.
C6_SecondInterruptForceQuit ==
  /\ [][(interrupted /\ sigints' = sigints + 1) =>
          (exitCode' = EXIT_SIGINT /\ cleanups' = cleanups
             /\ cleanupsDone' = cleanupsDone /\ watchStops' = watchStops)]_vars
  /\ [][InterruptState = "ForceExit" =>
          UNCHANGED <<pc, stepLog, pollCount, streams, watchStarts,
                      watchStops, cleanups, cleanupsDone, exitCode>>]_vars

\* C6 witness: force quit while the join is pending, before the
\* compensating uninstall has begun.
C6_Witness ==
  /\ sigints = 2
  /\ exitCode = EXIT_SIGINT
  /\ pc = "join"
  /\ cleanups = 0

\* The steps started so far are steps 1..n in that order, and the step the
\* pipeline is suspended in is the last one started.
StepsInOrder ==
  /\ \A i \in 1..Len(stepLog) : stepLog[i] = i
  /\ pc = "step1" => Len(stepLog) = 1
  /\ pc = "step2" => Len(stepLog) = 2
  /\ pc = "step3" => Len(stepLog) = 3
  /\ pc = "step4" => Len(stepLog) = 4

\* C7, as stated: steps run in declared order, and a run in which a step
\* that is not best-effort threw ends Failed.
C7_ThrowEndsFailed ==
  /\ StepsInOrder
  /\ (outcome = "thrown" /\ ~Alive) => exitCode = EXIT_UNCAUGHT

\* C7, amended: steps run in declared order, one at a time; after a step
\* that is not best-effort has thrown no later step is started, and the run
\* ends Failed (exit 1) when no interrupt was received before main handled
\* the error, Interrupted (exit 130) otherwise.
C7_OrderAndAbortOnThrow ==
  /\ []StepsInOrder
  /\ [][thrown # "none" => stepLog' = stepLog]_vars
  /\ []((outcome = "thrown" /\ ~Alive) =>
          exitCode = (IF sigints = 0 THEN EXIT_UNCAUGHT ELSE EXIT_SIGINT))

\* C7 witness: step 2 threw, steps 3 to 5 never started, the run Failed.
C7_Witness ==
  /\ exitCode = EXIT_UNCAUGHT
  /\ thrown = "updateKubeconfig"
  /\ stepLog = <<1, 2>>

\* C8: a failing helm uninstall in step 3 (non-zero exit) throws nothing and
\* is followed by the start of step 4.
C8_BestEffortUninstall ==
  step3Code = <<1>> =>
    /\ Len(stepLog) >= 4
    /\ stepLog[4] = 4
    /\ thrown # "helmUninstall"
    /\ pc # "step3"

\* C8 witness: the uninstall failed and the install is running.
C8_Witness ==
  /\ step3Code = <<1>>
  /\ pc = "step4"
  /\ thrown = "none"

\* C9: a terminated run is Completed, Failed or Interrupted, and its exit
\* code is 0 when Completed, non-zero and not 130 when Failed, and 130 when
\* Interrupted.
C9_ExitCodeFollowsClassification ==
  ~Alive =>
    /\ Classification \in {"Completed", "Failed", "Interrupted"}
    /\ Classification = "Completed" => exitCode = EXIT_OK
    /\ Classification = "Failed" => exitCode \notin {EXIT_OK, EXIT_SIGINT}
    /\ Classification = "Interrupted" => exitCode = EXIT_SIGINT

\* C9 witness: an interrupt arrived after the monitored phase had completed
\* and the finally block had decided; the run is Interrupted, exit 130.
C9_Witness ==
  /\ exitCode = EXIT_SIGINT
  /\ intPc = "settled"
  /\ outcome = "returned"
  /\ streams = 2

\* C10: once an interrupt has been received the run never ends Failed: the
\* process exits with 130, also when a step or the monitored phase threw.
C10_InterruptNeverFailed ==
  (sigints >= 1 /\ ~Alive) =>
    /\ exitCode # EXIT_UNCAUGHT
    /\ outcome = "thrown" => exitCode = EXIT_SIGINT

\* C10 witness: step 2 threw after an interrupt; exit 130.
C10_Witness ==
  /\ exitCode = EXIT_SIGINT
  /\ sigints = 1
  /\ intPc = "step2"
  /\ thrown = "updateKubeconfig"

\* C11: when waitForPods resumes with pollUntil's result it throws the
\* timeout error exactly when the poll gave up on the deadline and the main
\* signal is unset; when the poll gave up because the signal was set it
\* returns without error, and monitorGatling goes to its finally block.
C11_TimeoutVersusCancel ==
  /\ [][(pc = "pollRet" /\ pc' # "pollRet") =>
          (thrown' = "waitForPods"
             <=> (pollOutcome = "TimedOut" /\ ~aborted))]_vars
  /\ [][(pc = "pollRet" /\ pc' # "pollRet" /\ pollOutcome = "Aborted") =>
          (aborted /\ thrown' = "none" /\ pc' = "join")]_vars
  /\ [](thrown = "waitForPods" => (pollOutcome = "TimedOut" /\ ~ready))

\* C11 witness: the deadline elapsed with no interrupt and waitForPods threw.
C11_Witness ==
  /\ pc = "join"
  /\ thrown = "waitForPods"
  /\ pollOutcome = "TimedOut"
  /\ ~aborted

\* C12: a pollUntil called with an aborted signal returns false at once and
\* has invoked the probe zero times, whatever the probe and maxMs, and the
\* returned call does nothing more.
C12_PreAbortedNoProbe ==
  /\ [][(pc = "call" /\ aborted) =>
          (pc' = "pollRet" /\ ~ready' /\ pollCount' = 0
             /\ ~timer' /\ ~listener')]_vars
  /\ [][pc = "pollRet" => UNCHANGED <<pollCount, ready, pc>>]_vars

\* C12 witness: signal aborted before the call, a probe that would return
\* true, no maxMs: false, zero probes.
C12_Witness ==
  /\ pc = "pollRet"
  /\ ~ready
  /\ pollCount = 0
  /\ pollOutcome = "Aborted"
  /\ fn = <<"true">>
  /\ maxMs = <<>>

\* The first invocation on which the probe f does not return false
\* (0 when it always returns false).
FirstSettling(f) ==
  IF \A i \in 1..Len(f) : f[i] = "false" THEN 0
  ELSE CHOOSE n \in 1..Len(f) :
         f[n] # "false" /\ \A k \in 1..(n - 1) : f[k] = "false"

\* C13: a pollUntil that returns true does so on the first invocation of
\* the probe that returned true, after one completed interval wait between
\* each two consecutive probes; and if the probe returns true on its Nth
\* invocation, the signal is never set and no deadline expires first, the
\* call returns true after N probes and N-1 waits.
C13_SucceedsOnNth ==
  /\ pollOutcome = "Succeeded" =>
       /\ pc = "pollRet"
       /\ ready
       /\ pollCount = FirstSettling(fn)
       /\ fn[pollCount] = "true"
       /\ sleeps = pollCount - 1
  /\ (pc = "pollRet" /\ ~aborted /\ pollOutcome # "TimedOut"
        /\ FirstSettling(fn) # 0 /\ fn[FirstSettling(fn)] = "true") =>
       (ready /\ pollCount = FirstSettling(fn) /\ sleeps = pollCount - 1)
  /\ pc = "probe" => sleeps = pollCount - 1

\* C13 witness: true on the third invocation, after two waits.
C13_Witness ==
  /\ pc = "pollRet"
  /\ ready
  /\ ~aborted
  /\ pollCount = 3
  /\ sleeps = 2

\* C14: every probe invocation starts with the signal unset and the deadline
\* not yet reached, and a wait that the signal ended is followed by the
\* return of false, not by another probe.
C14_NoProbeAfterAbortOrDeadline ==
  /\ [][pollCount' # pollCount =>
          /\ ~aborted
          /\ pc' = "probe"
          /\ pollCount' = pollCount + 1
          /\ maxMs = <<>> \/ now - start' < maxMs[1]]_vars
  /\ [][(pc = "sleep" /\ sleepResult = "aborted" /\ pc' # "sleep") =>
          (pc' = "pollRet" /\ ~ready' /\ pollCount' = pollCount)]_vars
  /\ [][aborted => pollCount' = pollCount]_vars

\* C14 witness: the signal was set 2000 ms into the second interval wait and
\* pollUntil returned false after its two probes.
C14_Witness ==
  /\ pc = "pollRet"
  /\ pollOutcome = "Aborted"
  /\ ~ready
  /\ pollCount = 2
  /\ sleeps = 1
  /\ now - sleepStart = 2000

AlwaysFalse(f) == \A i \in 1..Len(f) : f[i] = "false"

\* C15, as stated: with a probe that always returns false and maxMs = M the
\* call returns false, and the probe has been invoked at least once by then.
C15_TimesOutAfterAProbe ==
  (pc = "pollRet" /\ AlwaysFalse(fn) /\ maxMs # <<>>) =>
    (~ready /\ pollCount >= 1)

\* C15, amended: with a probe that always returns false and maxMs = M the
\* call eventually returns false, on the deadline only when at least M ms
\* have elapsed since the call; the probe has then been invoked at least
\* once unless M = 0 or the signal was already set at the call.
C15_TimesOut ==
  /\ []((pc = "pollRet" /\ AlwaysFalse(fn) /\ maxMs # <<>>) =>
          /\ ~ready
          /\ pollOutcome \in {"TimedOut", "Aborted"}
          /\ pollOutcome = "TimedOut" => now - start >= maxMs[1]
          /\ pollCount = 0 => (maxMs[1] = 0 \/ pollOutcome = "Aborted"))
  /\ [][(pc = "call" /\ ~aborted /\ maxMs # <<>> /\ maxMs[1] > 0) =>
          pollCount' = 1]_vars
  /\ ((AlwaysFalse(fn) /\ maxMs # <<>>) ~> pc = "pollRet")

\* C15 witness: timed out with the signal never set, after two probes.
C15_Witness ==
  /\ pc = "pollRet"
  /\ pollOutcome = "TimedOut"
  /\ AlwaysFalse(fn)
  /\ ~aborted
  /\ pollCount = 2

\* C16: when the probe throws, pollUntil ends with that very error; the
\* probe is not invoked again and no interval wait is started afterwards.
C16_ProbeErrorPropagates ==
  /\ [](pollOutcome = "Threw" =>
          /\ pc = "pollRet"
          /\ thrown = "fn"
          /\ ~ready
          /\ fn[FirstSettling(fn)] = "throw"
          /\ pollCount = FirstSettling(fn)
          /\ sleeps = pollCount - 1
          /\ ~timer /\ ~listener /\ sleepResult = "none")
  /\ [][(pc = "probe" /\ pc' # "probe" /\ FnResult(fn, pollCount) = "throw") =>
          (pollOutcome' = "Threw" /\ pc' = "pollRet")]_vars
  /\ [][pollOutcome = "Threw" =>
          UNCHANGED <<pc, pollCount, sleeps, sleepStart, timer>>]_vars

\* C16 witness: the probe threw on its second invocation.
C16_Witness ==
  /\ pollOutcome = "Threw"
  /\ pollCount = 2
  /\ sleeps = 1
  /\ thrown = "fn"

\* C17: interruptibleSleep(d, signal) is resolved once, with one outcome:
\* "aborted" at the call when the signal is already set, "aborted" at the
\* moment the signal is set when that happens less than d after the call,
\* "timeout" exactly d after the call otherwise.
C17_SleepOutcome ==
  /\ [](sleepResult = "pending" =>
          (pc = "sleep" /\ ~aborted /\ now = sleepStart))
  /\ []((pc = "sleep" /\ sleepResult = "aborted") =>
          (aborted /\ now - sleepStart < intervalMs))
  /\ []((pc = "sleep" /\ sleepResult = "timeout") =>
          now - sleepStart = intervalMs)
  /\ [][(pc # "sleep" /\ pc' = "sleep") =>
          /\ sleepResult' = (IF aborted THEN "aborted" ELSE "pending")
          /\ sleepStart' = now']_vars
  /\ [][(sleepResult = "pending" /\ ~aborted /\ aborted') =>
          sleepResult' = "aborted"]_vars
  /\ [][(sleepResult = "timeout" \/ sleepResult = "aborted") =>
          (sleepResult' = sleepResult \/ sleepResult' = "none")]_vars

\* C17 witness: the signal was set 2000 ms into the wait, which is resolved
\* with "aborted" at that moment.
C17_Witness ==
  /\ pc = "sleep"
  /\ sleepResult = "aborted"
  /\ now - sleepStart = 2000

\* C18: a timer is armed or a listener registered only while an
\* interruptibleSleep is pending, both together; a sleep called with an
\* aborted signal arms neither, and a resolved sleep has left neither.
C18_NoDanglingTimerOrListener ==
  /\ [](timer <=> listener)
  /\ []((timer \/ listener) => (pc = "sleep" /\ sleepResult = "pending"))
  /\ [][(pc # "sleep" /\ pc' = "sleep" /\ aborted) =>
          (~timer' /\ ~listener')]_vars

\* C18 witness: waitForPods' poll completed a wait on the timer and then one
\* on the signal; nothing is left armed or registered.
C18_Witness ==
  /\ pc = "pollRet"
  /\ pollOutcome = "Aborted"
  /\ sleeps >= 1
  /\ now - sleepStart = 2000
  /\ ~timer
  /\ ~listener

Digits == {"0", "1", "2", "3", "4", "5", "6", "7", "8", "9"}

\* The label has the form Init:<n>/<m>, n and m decimal numbers.
MatchesInitPattern(s) ==
  /\ StartsWith(s, InitPrefix)
  /\ LET r == SubSeq(s, Len(InitPrefix) + 1, Len(s))
     IN \E k \in 2..(Len(r) - 1) :
          /\ r[k] = "/"
          /\ \A i \in (1..Len(r)) \ {k} : r[i] \in Digits

\* C19, as stated: isPodReady answers NotReady exactly for "Pending",
\* "ContainerCreating", "PodInitializing" and labels of the form
\* Init:<n>/<m>.
C19_NotReadyIffNamedOrInitCounts ==
  (txtOp = "isPodReady" /\ txtOut # <<>>) =>
    (txtOut[1] = FALSE <=>
       \/ txtIn \in {Pending, ContainerCreating, PodInitializing}
       \/ MatchesInitPattern(txtIn))

\* C19, amended: isPodReady answers NotReady exactly for "Pending",
\* "ContainerCreating", "PodInitializing" and every label that starts with
\* "Init:" (Init:<n>/<m> among them); every other label, "Running",
\* "Completed", "CrashLoopBackOff" and "Error" included, is Ready.
C19_NotReadyIffNamedOrInitPrefix ==
  (txtOp = "isPodReady" /\ txtOut # <<>>) =>
    /\ txtOut[1] = FALSE <=>
         \/ txtIn \in {Pending, ContainerCreating, PodInitializing}
         \/ (Len(txtIn) >= 5 /\ SubSeq(txtIn, 1, 5) = <<"I", "n", "i", "t", ":">>)
    /\ MatchesInitPattern(txtIn) => txtOut[1] = FALSE
    /\ txtIn \in {Running, Completed, CrashLoopBackOff, Error} =>
         txtOut[1] = TRUE

\* C19 witness: "Init:0/1" has been classified NotReady.
C19_Witness ==
  /\ txtOp = "isPodReady"
  /\ txtIn = InitZeroOne
  /\ txtOut = <<FALSE>>

\* Length of the run of non-whitespace characters s starts with.
RunLen(s) ==
  CHOOSE n \in 1..Len(s) :
    /\ \A i \in 1..n : ~IsSpace(s[i])
    /\ n = Len(s) \/ IsSpace(s[n + 1])

\* The whitespace-delimited columns of a line: its maximal runs of
\* non-whitespace characters, left to right.
RECURSIVE Columns(_)
Columns(s) ==
  IF s = <<>> THEN <<>>
  ELSE IF IsSpace(Head(s)) THEN Columns(Tail(s))
  ELSE <<SubSeq(s, 1, RunLen(s))>> \o Columns(SubSeq(s, RunLen(s) + 1, Len(s)))

\* C20: parsePodStatus returns null for a line with fewer than three
\* whitespace-delimited columns (blank and whitespace-only lines among
\* them), and otherwise the first column as name and the third as status,
\* whatever the leading whitespace, the width of the spacing and the
\* columns after the third.
C20_ParsePodStatusColumns ==
  (txtOp = "parsePodStatus" /\ txtOut # <<>>) =>
    LET cols == Columns(txtIn)
    IN txtOut[1] = IF Len(cols) < 3 THEN Null
                   ELSE [name |-> cols[1], status |-> cols[3]]

\* C20 witness: a line with leading whitespace, a two-character gap and a
\* tab has been parsed into its first and third column.
C20_Witness ==
  /\ txtOp = "parsePodStatus"
  /\ txtIn = <<SP, "a", SP, SP, "a", TAB, "b">>
  /\ txtOut = <<[name |-> <<"a">>, status |-> <<"b">>]>>

\* The monitoring sub-stage in progress: 1 wait-for-runners, 2
\* stream-runner-logs, 3 wait-for-reporter, 4 stream-reporter-logs, 0 when
\* the pipeline is outside the four sub-stages.
SubStage ==
  IF pc \in {"probe", "sleep", "pollRet"}
    THEN (IF stage = "runner" THEN 1 ELSE 3)
  ELSE IF pc = "stream"
    THEN (IF stage = "runner" THEN 2 ELSE 4)
  ELSE 0

\* C21: the monitoring sub-stages start in the order wait-for-runners,
\* stream-runner-logs, wait-for-reporter, stream-reporter-logs, the first
\* one from step 4 only; a sub-stage is followed by the next one only when
\* the main signal is unset at its return, so once the signal is set during
\* a sub-stage no later sub-stage starts.
C21_GuardedSubStages ==
  /\ [][(SubStage' # SubStage /\ SubStage' # 0) =>
          /\ SubStage' = SubStage + 1
          /\ SubStage = 0 => pc = "step4"
          /\ SubStage # 0 => ~aborted]_vars
  /\ [][(aborted /\ SubStage # 0) => SubStage' \in {SubStage, 0}]_vars

\* C21 witness: the interrupt arrived while the runner logs were streamed
\* and the stream's return led to the teardown: one stream, no second wait.
C21_Witness ==
  /\ intPc = "stream"
  /\ stage = "runner"
  /\ pc = "join"
  /\ aborted
  /\ streams = 1

\* C22: the first interrupt moves InterruptState from Idle to Interrupting
\* and sets the main signal in the same step, and the main signal is set by
\* nothing but the first run of the interrupt handler.
C22_HandlerOwnsSignal ==
  /\ [][(sigints' # sigints /\ InterruptState = "Idle") =>
          (InterruptState' = "Interrupting" /\ aborted')]_vars
  /\ [][aborted' # aborted =>
          (sigints = 0 /\ sigints' = 1 /\ InterruptState = "Idle")]_vars
  /\ [](aborted <=> interrupted)

\* C22 witness: one interrupt, during a log stream: Interrupting, signal
\* set.
C22_Witness ==
  /\ sigints = 1
  /\ intPc = "stream"
  /\ InterruptState = "Interrupting"
  /\ aborted

\* C23: the compensating uninstall is started with the main signal (and the
\* watch's signal) already set, as a real uninstall bound to no signal, and
\* it ends by the exit of its own helm process.
C23_CleanupInFreshContext ==
  /\ [](pc = "cleanup" =>
          /\ aborted
          /\ watchAborted
          /\ cleanupCtx = <<FALSE, "none">>
          /\ ~SignalSet(cleanupCtx[2]))
  /\ [][cleanups' # cleanups =>
          (aborted /\ pc' = "cleanup" /\ cleanups' = cleanups + 1)]_vars
  /\ [][(pc = "cleanup" /\ pc' # "cleanup") =>
          (cleanupsDone' = cleanupsDone + 1 /\ cleanupCode' # <<>>)]_vars

\* C23 witness: with the main signal set, the compensating uninstall was
\* started, ran and succeeded.
C23_Witness ==
  /\ pc = "settled"
  /\ aborted
  /\ cleanupsDone = 1
  /\ cleanupCode = <<0>>

\* C24: a failing compensating uninstall changes neither the error the
\* pipeline settles with nor the classification: the run ends Interrupted
\* with exit code 130.
C24_CleanupFailureStaysInterrupted ==
  /\ []((cleanupCode = <<1>> /\ exitCode # NoExit) =>
          (exitCode = EXIT_SIGINT /\ Classification = "Interrupted"))
  /\ [][(cleanupCode = <<>> /\ cleanupCode' = <<1>>) =>
          /\ thrown' = thrown
          /\ outcome' = (IF thrown = "none" THEN "returned" ELSE "thrown")
          /\ exitCode' = NoExit]_vars

\* C24 witness: one interrupt, the compensating uninstall failed, exit 130.
C24_Witness ==
  /\ sigints = 1
  /\ cleanupCode = <<1>>
  /\ exitCode = EXIT_SIGINT

\* C25: the pod watch is started once and is running from the step that
\* enters the first monitoring sub-stage; it is stopped once, in the step
\* that leaves the sub-stages for the teardown; it does not exist during
\* steps 1 to 4, runs only during the sub-stages and the teardown's wait
\* for it, and has terminated when the compensating uninstall starts.
C25_WatchLifetime ==
  /\ [](watchStarts <= 1 /\ watchStops <= 1)
  /\ [][watchStarts' # watchStarts =>
          (pc = "step4" /\ SubStage' = 1 /\ podWatch' = "running")]_vars
  /\ [][watchStops' # watchStops =>
          (SubStage # 0 /\ pc' = "join" /\ watchAborted')]_vars
  /\ [](pc \in Steps => (podWatch = "none" /\ watchStarts = 0))
  /\ [](SubStage # 0 => (watchStarts = 1 /\ watchStops = 0))
  /\ [](podWatch = "running" => (SubStage # 0 \/ pc = "join"))
  /\ [](pc \in {"join", "cleanup"} => (watchStarts = 1 /\ watchStops = 1))
  /\ [](cleanups >= 1 => podWatch = "exited")

WatchFailed == watchExit # <<>> /\ watchExit[1] # 0

C29_SignalsNeverUnset ==
  /\ [][aborted => aborted']_vars
  /\ [][interrupted => interrupted']_vars
  /\ [][watchAborted => watchAborted']_vars
  /\ [][InterruptState # "Idle" => InterruptState' # "Idle"]_vars

\* C29 witness: interrupted during a log stream, the run went through
\* teardown and cleanup and exited with 130, the signal still set.
C29_Witness ==
  /\ intPc = "stream"
  /\ sigints = 1
  /\ cleanupsDone = 1
  /\ exitCode = EXIT_SIGINT
  /\ aborted
  /\ InterruptState = "Interrupting"

\* C30: however many times abort() is called on the signal, the listener of
\* an interruptible wait runs at most once, in the call that sets the
\* signal; a call on a signal that is already set runs no listener, resolves
\* nothing and leaves the signal set.
C30_SetIsIdempotent ==
  /\ [](fired <= 1)
  /\ [][fired' # fired =>
          /\ ~aborted /\ aborted'
          /\ listener /\ ~listener'
          /\ sleepResult = "pending" /\ sleepResult' = "aborted"]_vars
  /\ [][(aborts' # aborts /\ aborted) =>
          /\ aborted'
          /\ UNCHANGED <<fired, sleepResult, timer, listener, pc, now, ready,
                         pollCount, pollOutcome>>]_vars

\* C30 witness: abort() was called twice on the signal of a pending wait;
\* the listener ran once and pollUntil returned false.
C30_Witness ==
  /\ aborts = 2
  /\ fired = 1
  /\ pc = "pollRet"
  /\ pollOutcome = "Aborted"

\* C31: in a dry run step 5 is skipped entirely: the step that ends step 4
\* settles the pipeline, the pod watch is never created, started or stopped,
\* no status query, interval wait or log stream runs and no compensating
\* uninstall is started, also when an interrupt arrived during steps 1 to 4.
C31_DryRunSkipsMonitoring ==
  /\ [](dryRun =>
          /\ pc \in Steps \cup {"settled"}
          /\ \A i \in 1..Len(stepLog) : stepLog[i] # 5
          /\ podWatch = "none" /\ watchStarts = 0 /\ watchStops = 0
          /\ ~watchAborted /\ watchExit = <<>>
          /\ stage = "none" /\ pollCount = 0 /\ queryCode = <<>>
          /\ sleepResult = "none" /\ ~timer /\ ~listener
          /\ streams = 0
          /\ cleanups = 0 /\ cleanupsDone = 0 /\ cleanupCtx = <<>>)
  /\ [][(dryRun /\ pc = "step4" /\ pc' # "step4") =>
          (pc' = "settled" /\ stepLog' = stepLog)]_vars

\* C31 witness: a dry run interrupted during step 2 whose four steps all
\* succeeded; it returned without monitoring or cleanup and exited with 130.
C31_Witness ==
  /\ dryRun
  /\ intPc = "step2"
  /\ stepLog = <<1, 2, 3, 4>>
  /\ outcome = "returned"
  /\ exitCode = EXIT_SIGINT
  /\ cleanups = 0

\* C32: whenever the pipeline is suspended the interrupt flag is set exactly
\* when the main signal is; a step that writes either one writes both, is a
\* run of the interrupt handler and moves the pipeline nowhere; so the guard
\* of a sub-stage (the signal) and the cleanup decision (the flag) agree:
\* the finally block starts the compensating uninstall exactly when the
\* signal is set, and a sub-stage that ends with the flag set starts no
\* further sub-stage.
C32_FlagMatchesSignal ==
  /\ [](interrupted = aborted)
  /\ [][(interrupted' # interrupted \/ aborted' # aborted) =>
          /\ ~interrupted /\ ~aborted
          /\ interrupted' /\ aborted'
          /\ sigints' = sigints + 1
          /\ pc' = pc]_vars
  /\ [](CleanupWanted = SignalSet("abort"))
  /\ [][(pc = "join" /\ pc' # "join") =>
          (pc' = "cleanup" <=> aborted)]_vars
  /\ [][(interrupted /\ pc \in {"pollRet", "stream"} /\ pc' # pc) =>
          pc' = "join"]_vars

\* C32 witness: the interrupt arrived while the runner logs were streamed;
\* the guard after the stream returned and the finally block started the
\* compensating uninstall, flag and signal both set.
C32_Witness ==
  /\ pc = "cleanup"
  /\ intPc = "stream"
  /\ stage = "runner"
  /\ interrupted
  /\ aborted

\* The run is not a dry run and its first interrupt arrived during one of
\* the steps 1 to 4.
InterruptedInSteps == ~dryRun /\ intPc \in Steps

\* Monitoring entered after an interrupt during steps 1 to 4: no status
\* query is ever made and no log stream started, the first poll returns at
\* once and its return leads to the teardown; and when the interrupt was the
\* only one and the process has ended, the watch was stopped once and had
\* terminated, the compensating uninstall has run once and the exit code is
\* 130.
C33_NoProbeThenCleanup ==
  /\ [](InterruptedInSteps =>
          (pollCount = 0 /\ queryCode = <<>> /\ sleeps = 0 /\ streams = 0))
  /\ []((InterruptedInSteps /\ MonitorEntered) =>
          (pc \in {"pollRet", "join", "cleanup", "settled"}
             /\ stage = "runner" /\ thrown = "none"))
  /\ []((InterruptedInSteps /\ MonitorEntered /\ sigints = 1 /\ ~Alive) =>
          /\ watchStops = 1
          /\ podWatch = "exited"
          /\ cleanups = 1 /\ cleanupsDone = 1
          /\ exitCode = EXIT_SIGINT)

\* C33: when the only interrupt arrived during steps 1 to 4 of a run that is
\* not a dry run and step 4 succeeds, the step that ends step 4 enters
\* monitoring with the pod watch started (running); the status probe is then
\* invoked zero times and no log stream is started, the watch is stopped,
\* the compensating uninstall runs and the process exits with 130.
C33_InterruptBeforeMonitoring ==
  /\ [][(pc = "step4" /\ InterruptedInSteps /\ pc' # pc
           /\ outcome' = "pending") =>
          /\ stepLog' = Append(stepLog, 5)
          /\ watchStarts' = 1
          /\ podWatch' = "running"
          /\ pc' = "pollRet" /\ pollOutcome' = "Aborted" /\ ~ready'
          /\ pollCount' = 0]_vars
  /\ C33_NoProbeThenCleanup

C34_LateInterrupt ==
  /\ intPc = "settled"
  /\ MonitorEntered
  /\ streams = 2
  /\ cleanups = 0
  /\ exitCode = EXIT_SIGINT

\* C35: when the main signal was set while a status probe was in flight, the
\* result of that probe decides the poll.  If it is true, pollUntil returns
\* true, waitForPods throws nothing, and the guard after it goes to the
\* teardown without starting the log stream.  If it is false, the interval
\* wait is resolved with "aborted" at its call, without a timer, and
\* pollUntil returns false at that same time without another probe.
C35_InFlightProbeDecides ==
  /\ [][(pc = "probe" /\ aborted /\ pc' # "probe") =>
          IF probed' = "true"
            THEN /\ pc' = "pollRet"
                 /\ ready'
                 /\ pollOutcome' = "Succeeded"
                 /\ thrown' = "none"
            ELSE /\ probed' = "false"
                 /\ pc' = "sleep"
                 /\ sleepResult' = "aborted"
                 /\ ~timer' /\ ~listener'
                 /\ sleepStart' = now'
                 /\ pollCount' = pollCount]_vars
  /\ [][(intPc = "probe" /\ pc = "sleep" /\ pc' # "sleep") =>
          /\ pc' = "pollRet"
          /\ ~ready'
          /\ pollOutcome' = "Aborted"
          /\ pollCount' = pollCount
          /\ now' = sleepStart]_vars
  /\ [][(intPc = "probe" /\ pc = "pollRet" /\ pc' # "pollRet") =>
          /\ pc' = "join"
          /\ thrown' = "none"
          /\ streams' = streams]_vars
  /\ [][intPc = "probe" => (pollCount' = pollCount /\ sleeps' = sleeps)]_vars
  /\ []((intPc = "probe" /\ pc = "pollRet") => (ready <=> probed = "true"))

\* C35 witness: the signal was set during the first status probe of the
\* runner pods, the probe returned true, pollUntil returned true, and the
\* guard went to the teardown with no log stream started.
C35_Witness ==
  /\ intPc = "probe"
  /\ probed = "true"
  /\ ready
  /\ pollOutcome = "Succeeded"
  /\ pc = "join"
  /\ thrown = "none"
  /\ streams = 0

\* The signal was set during a probe that returned false: pollUntil returned
\* false after that one probe, at the time the probe ended.
C35_FalseProbe ==
  /\ intPc = "probe"
  /\ probed = "false"
  /\ pc = "pollRet"
  /\ ~ready
  /\ pollCount = 1
  /\ sleeps = 0
  /\ now = sleepStart

\* ceil(a / b) for a >= 0 and b > 0.
Ceil(a, b) == (a + b - 1) \div b

\* Every probe of the call so far took no time: the time since the call is
\* the time of the interval waits that ran out.
InstantProbes == now - start = sleeps * intervalMs

\* C36: the deadline ends the call only at a loop head (at the call or after
\* an interval wait that ran out), and a wait that the signal does not end
\* lasts the whole interval, whatever the deadline.  So with instantaneous
\* probes that always return false, the signal never set, interval I and
\* maxMs = M, the call returns false after exactly ceil(M / I) probes, each
\* followed by a whole wait, at time I * ceil(M / I) after the call, which
\* is at least M and less than M + I; with M = 0 that is zero probes at the
\* time of the call.
C36_DeadlineOnlyAtLoopHead ==
  /\ [][(pollOutcome # "TimedOut" /\ pollOutcome' = "TimedOut") =>
          (pc = "call" \/ (pc = "sleep" /\ sleepResult = "timeout"))]_vars
  /\ [][(timer /\ ~timer' /\ ~aborted') =>
          (now' = now + intervalMs /\ sleepResult' = "timeout")]_vars
  /\ []((pc = "pollRet" /\ AlwaysFalse(fn) /\ ~aborted /\ maxMs # <<>>
          /\ InstantProbes) =>
          LET M == maxMs[1]
              I == intervalMs
          IN /\ ~ready
             /\ pollOutcome = "TimedOut"
             /\ pollCount = Ceil(M, I)
             /\ sleeps = pollCount
             /\ now - start = I * Ceil(M, I)
             /\ now - start >= M
             /\ now - start < M + I
             /\ M = 0 => (pollCount = 0 /\ now = start))

\* C36 witness: I = 3000 and M = 4000; the call returned false after two
\* probes at time 6000, 2000 ms after the deadline.
C36_Witness ==
  /\ pc = "pollRet"
  /\ pollOutcome = "TimedOut"
  /\ AlwaysFalse(fn)
  /\ ~aborted
  /\ intervalMs = 3000
  /\ maxMs = <<4000>>
  /\ pollCount = 2
  /\ now - start = 6000

\* M = 0: the call returned false at once, the probe never invoked.
C36_ZeroDeadline ==
  /\ pc = "pollRet"
  /\ pollOutcome = "TimedOut"
  /\ ~aborted
  /\ maxMs = <<0>>
  /\ pollCount = 0
  /\ now = start

\* C37: the compensating uninstall is started at most once in a run and
\* finished at most once, after its start: its only start is the step that
\* leaves the join of the finally block, which is left once; neither an
\* interrupt, the first or a later one, nor any step after the decision
\* starts another, whatever sub-stage the monitored phase ended in.
C37_CleanupAtMostOnce ==
  /\ [](cleanups <= 1 /\ cleanupsDone <= cleanups)
  /\ [][cleanups' # cleanups =>
          (cleanups = 0 /\ cleanups' = 1 /\ pc = "join" /\ pc' = "cleanup"
             /\ sigints' = sigints)]_vars
  /\ [][cleanupsDone' # cleanupsDone =>
          (cleanupsDone' = 1 /\ cleanups = 1 /\ pc = "cleanup"
             /\ pc' = "settled")]_vars
  /\ [][(pc = "cleanup" \/ pc = "settled") => pc' # "join"]_vars
  /\ [][sigints' # sigints =>
          UNCHANGED <<cleanups, cleanupsDone, cleanupCtx>>]_vars

\* C37 witness: the first interrupt ended the wait for the reporter pods,
\* the compensating uninstall ran, and a second interrupt then ended the
\* process: two interrupts, one uninstall.
C37_Witness ==
  /\ sigints = 2
  /\ intPc = "sleep"
  /\ stage = "reporter"
  /\ cleanups = 1
  /\ cleanupsDone = 1
  /\ exitCode = EXIT_SIGINT

\* The awaits of the monitoring phase: the four sub-stages and the join of
\* the teardown.
MonitoringPcs == {"probe", "sleep", "pollRet", "stream", "join"}

\* C38: under the fairness of FairSpec, a first interrupt received during
\* the monitoring phase is eventually followed by the exit of the process
\* with code 130, and on that graceful path (no second interrupt has ended
\* the process by force) the watch has then been joined and the
\* compensating uninstall has finished.  The join is left only once the
\* watch has terminated: while it has not, the finally block cannot go on
\* and no compensating uninstall is started.
C38_InterruptLeadsToExit130 ==
  /\ (intPc \in MonitoringPcs) ~> (exitCode = EXIT_SIGINT)
  /\ []((intPc \in MonitoringPcs /\ ~Alive) =>
          /\ exitCode = EXIT_SIGINT
          /\ sigints = 1 =>
               (pc = "settled" /\ watchAborted /\ podWatch = "exited"
                  /\ cleanups = 1 /\ cleanupsDone = 1))
  /\ [][(pc = "join" /\ pc' # "join") => podWatch = "exited"]_vars
  /\ []((pc = "join" /\ podWatch # "exited") => ~ENABLED JoinDone)
  /\ [](podWatch # "exited" => cleanups = 0)

\* C38 witness: interrupted while the reporter logs were streamed; the watch
\* was killed through its signal and joined, the compensating uninstall
\* finished, and the process exited with 130.
C38_Witness ==
  /\ intPc = "stream"
  /\ stage = "reporter"
  /\ sigints = 1
  /\ watchExit = <<1, TRUE>>
  /\ podWatch = "exited"
  /\ cleanupsDone = 1
  /\ exitCode = EXIT_SIGINT

====
